---- MODULE Spec2Model ----
(***************************************************************************)
(* A model of the reconciliation engine of Changes: the sync_job task, the *)
(* sync_job_step task, the Command report endpoint with its expansion      *)
(* protocol, and the green-build listener.                                 *)
(*                                                                         *)
(* Every task invocation and every request is a worker whose position in   *)
(* the handler is pc[w]; a step of a worker is one statement group of the  *)
(* handler between two points where another worker can interleave (a       *)
(* database statement, a commit, a call of the queue or of the Backend).   *)
(***************************************************************************)
EXTENDS Integers, Sequences, FiniteSets, TLC

(***************************************************************************)
(* Bounds of the model.                                                    *)
(***************************************************************************)
\* number of transient (non-Unrecoverable) exceptions the environment raises
MaxFailures == 1
\* timestamps are drawn from 1..MaxDate
MaxDate == 2
\* reports received by the endpoint
MaxReports == 2
\* step descriptors an expander yields
MaxExpand == 1
\* build.finished signals delivered to the green-build listener
MaxSignals == 2
\* the build.timeout option is drawn from 0..MaxTimeout
MaxTimeout == 2
\* Step objects constructed
MaxSteps == 2

(***************************************************************************)
(* Vocabulary.                                                             *)
(***************************************************************************)
None == "none"

\* an unset DateTime column
NoDate == 0

Status == {"unknown", "queued", "in_progress", "finished"}

Result == {"unknown", "passed", "failed", "aborted", "infra_failed"}

\* position of a status in the order of progress unknown -> ... -> finished
Rank(s) ==
    CASE s = "unknown" -> 0
      [] s = "queued" -> 1
      [] s = "in_progress" -> 2
      [] s = "finished" -> 3

Dates == 1..MaxDate

Jobs == {"j1", "j2"}

Builds == {"b1"}

Workers == {"w1", "w2"}

\* a JobPlan row is absent, bound to a Plan without steps, or to a Plan with a step
PlanKinds == {"absent", "nosteps", "ok"}

\* countdown of the sync_job continuation, of the retry, and of the stats tasks
SyncCountdown == 5

RetryCountdown == 60

StatsCountdown == 1

VARIABLES
    (* persisted entities *)
    job,        \* Job rows: [Jobs -> record], exists = FALSE for an id with no row
    jobplan,    \* JobPlan/Plan rows of each Job: [Jobs -> PlanKinds]
    build,      \* the Build row shared by the Jobs that have build_id set
    (* infrastructure *)
    locks,      \* keys of the advisory locks currently held
    pending,    \* deliverable sync_job tasks per job id
    failures,   \* transient exceptions raised so far
    (* one sync_job invocation per worker *)
    pc,         \* position of the worker in sync_job
    arg,        \* job_id argument of the invocation
    mem,        \* the in-memory Job object of the invocation
    prev,       \* prev_status
    plan,       \* job_plan as loaded by the invocation
    delayed,    \* queue.delay / queue.retry calls made by the invocation, in order
    log,        \* what the invocation did: set of markers
    (* the Command report endpoint *)
    command,    \* the Command row
    phases,     \* committed JobPhase rows created by expansion, with their JobSteps
    scheduled,  \* sync_job_step tasks handed to the queue by expansion
    skipped,    \* the counter command_expansion_aborted
    reports,    \* requests received so far
    rpc,        \* position of each request in post()
    rargs,      \* parsed arguments of the request
    rnow,       \* current_datetime of the request
    rdirty,     \* the columns of the Command changed in the session
    rsess,      \* the Command in the session of the request (flushed, not committed)
    rnew,       \* the JobPhase and JobSteps added to the session of the request
    resp,       \* response of the request
    (* the green-build listener *)
    gbuild,     \* Build rows with their source revision
    latest,     \* LatestGreenBuild rows: branch -> build id
    cloned,     \* the repository exists locally
    events,     \* green_build Event rows: the Build and the recorded status of each
    signals,    \* build.finished signals delivered so far
    hpc,        \* position of each invocation in build_finished_handler
    harg,       \* build_id argument of the invocation
    hidx,       \* index of the branch the loop is at
    hlog,       \* what the invocation did: sequence of markers
    (* sync_job_step *)
    step,       \* the JobStep row
    task,       \* status of the Task row that mirrors the JobStep
    snapshot,   \* options of the plan snapshot: build.timeout, build.expect-tests
    jobphases,  \* JobPhase rows of the Job: phase -> dates
    testcases,  \* TestCase rows: the step of each, and whether it failed
    coverage,   \* FileCoverage rows: the step of each and its four counters
    stats,      \* ItemStat rows of the JobStep: name -> value
    reasons,    \* FailureReason rows of the JobStep: the reason of each
    spending,   \* deliverable sync_job_step tasks (a task may be delivered twice)
    sfailures,  \* transient exceptions raised so far
    spc,        \* position of each invocation in sync_job_step
    smem,       \* the in-memory JobStep of the invocation
    swrites,    \* ItemStats and FailureReasons in the session of the invocation
    sdelayed,   \* queue calls made by the invocation, in order
    slog,       \* what the invocation did: set of markers
    snow,       \* the clock as the invocation read it for the timeout check
    scalls,     \* Backend calls made by the invocation, in order
    (* buildbox.models.step *)
    bsteps      \* the Step objects constructed so far, in order

jobVars == <<job, jobplan, build, pending, failures,
             pc, arg, mem, prev, plan, delayed, log>>

cmdVars == <<command, phases, scheduled, skipped, reports,
             rpc, rargs, rnow, rdirty, rsess, rnew, resp>>

greenVars == <<gbuild, latest, cloned, events, signals, hpc, harg, hidx, hlog>>

stepVars == <<step, task, snapshot, jobphases, testcases, coverage, stats, reasons,
              spending, sfailures, spc, smem, swrites, sdelayed, slog, snow, scalls>>

modelVars == <<bsteps>>

notJob == <<cmdVars, greenVars, stepVars, modelVars>>

notCmd == <<jobVars, greenVars, stepVars, modelVars>>

notGreen == <<jobVars, cmdVars, stepVars, modelVars>>

notStep == <<jobVars, cmdVars, greenVars, modelVars>>

notModel == <<locks, jobVars, cmdVars, greenVars, stepVars>>

vars == <<locks, jobVars, cmdVars, greenVars, stepVars, modelVars>>

(***************************************************************************)
(* The advisory lock (changes.utils.locking.lock): non-blocking, keyed by  *)
(* the task name and its arguments.                                        *)
(***************************************************************************)
LockKey(name, id) == <<name, id>>

LockFree(held, key) == key \notin held

(***************************************************************************)
(* The work queue.                                                         *)
(***************************************************************************)
Task(name, id, countdown) ==
    [name |-> name, id |-> id, countdown |-> countdown, signal |-> None, retry |-> FALSE]

Signal(name, id, signal) ==
    [name |-> name, id |-> id, countdown |-> 0, signal |-> signal, retry |-> FALSE]

Retry(name, id, countdown) ==
    [name |-> name, id |-> id, countdown |-> countdown, signal |-> None, retry |-> TRUE]

RECURSIVE CountTasks(_, _)
\* number of calls of the sequence that name the task
CountTasks(calls, name) ==
    IF calls = <<>> THEN 0
    ELSE (IF Head(calls).name = name THEN 1 ELSE 0) + CountTasks(Tail(calls), name)

RECURSIVE CountRetries(_)
CountRetries(calls) ==
    IF calls = <<>> THEN 0
    ELSE (IF Head(calls).retry THEN 1 ELSE 0) + CountRetries(Tail(calls))

(***************************************************************************)
(* The Backend: execute(job) mutates the Job as a side effect.  It moves   *)
(* the status forward in the order of progress, sets a verdict when it     *)
(* finishes the Job and a start time when the Job starts.                  *)
(***************************************************************************)
BackendResults == {"passed", "failed"}

ExecuteOutcomes(j) ==
    { [j EXCEPT !.status = s, !.result = r, !.date_started = d] :
        s \in {t \in Status : Rank(t) >= Rank(j.status)},
        r \in (IF j.result # "unknown" THEN {j.result} ELSE BackendResults \cup {"unknown"}),
        d \in (IF j.date_started # NoDate THEN {j.date_started} ELSE Dates \cup {NoDate}) }

Execute(j) ==
    { o \in ExecuteOutcomes(j) :
        /\ (o.result # "unknown") = (o.status = "finished")
        /\ (o.date_started # NoDate) = (Rank(o.status) >= 2) }

(***************************************************************************)
(* sync_job                                                                *)
(***************************************************************************)
NoJob == [exists |-> FALSE, status |-> "unknown", result |-> "unknown",
          date_started |-> NoDate, build_id |-> None]

Idle(w) == pc[w] = "idle"

\* the workers are interchangeable: a task goes to the first idle one
FirstIdle(w) == Idle(w) /\ (w = "w1" \/ ~Idle("w1"))

\* the statement of lines 57-64: UPDATE build SET ... WHERE id = :id AND status IN (queued, unknown)
UpdateBuildAlways(b, j) ==
    [b EXCEPT !.status = j.status, !.date_started = j.date_started]

UpdateBuild(b, j) ==
    IF b.status \in {"queued", "unknown"}
    THEN [b EXCEPT !.status = j.status, !.date_started = j.date_started]
    ELSE b

SyncJobCallUnlocked(w, j) ==
    /\ FirstIdle(w)
    /\ pending[j] > 0
    /\ pending' = [pending EXCEPT ![j] = @ - 1]
    /\ locks' = locks \cup {LockKey("sync_job", j)}
    /\ arg' = [arg EXCEPT ![w] = j]
    /\ pc' = [pc EXCEPT ![w] = "get"]
    /\ log' = [log EXCEPT ![w] = {"locked"}]
    /\ UNCHANGED <<job, jobplan, build, failures, mem, prev, plan, delayed>>
    /\ UNCHANGED notJob

\* @lock def sync_job(job_id): the queue delivers a task and the decorator tries the lock
SyncJobCall(w, j) ==
    /\ FirstIdle(w)
    /\ pending[j] > 0
    /\ pending' = [pending EXCEPT ![j] = @ - 1]
    /\ IF LockFree(locks, LockKey("sync_job", j))
       THEN /\ locks' = locks \cup {LockKey("sync_job", j)}
            /\ arg' = [arg EXCEPT ![w] = j]
            /\ pc' = [pc EXCEPT ![w] = "get"]
            /\ log' = [log EXCEPT ![w] = {"locked"}]
       ELSE /\ locks' = locks
            /\ arg' = arg
            /\ pc' = pc
            /\ log' = [log EXCEPT ![w] = {"abandoned"}]
    /\ UNCHANGED <<job, jobplan, build, failures, mem, prev, plan, delayed>>
    /\ UNCHANGED notJob

SyncJobGetAnyStatus(w) ==
    /\ pc[w] = "get"
    /\ IF ~job[arg[w]].exists
       THEN /\ pc' = [pc EXCEPT ![w] = "exit"]
            /\ log' = [log EXCEPT ![w] = @ \cup {"noop"}]
            /\ UNCHANGED <<mem, prev, plan>>
       ELSE /\ mem' = [mem EXCEPT ![w] = job[arg[w]]]
            /\ prev' = [prev EXCEPT ![w] = job[arg[w]].status]
            /\ plan' = [plan EXCEPT ![w] = jobplan[arg[w]]]
            /\ pc' = [pc EXCEPT ![w] = "exec"]
            /\ log' = log
    /\ UNCHANGED <<job, jobplan, build, locks, pending, failures, arg, delayed>>
    /\ UNCHANGED notJob

\* lines 15-29: load the Job, return when absent or finished, load the JobPlan
SyncJobGet(w) ==
    /\ pc[w] = "get"
    /\ IF ~job[arg[w]].exists \/ job[arg[w]].status = "finished"
       THEN /\ pc' = [pc EXCEPT ![w] = "exit"]
            /\ log' = [log EXCEPT ![w] = @ \cup {"noop"}]
            /\ UNCHANGED <<mem, prev, plan>>
       ELSE /\ mem' = [mem EXCEPT ![w] = job[arg[w]]]
            /\ prev' = [prev EXCEPT ![w] = job[arg[w]].status]
            /\ plan' = [plan EXCEPT ![w] = jobplan[arg[w]]]
            /\ pc' = [pc EXCEPT ![w] = "exec"]
            /\ log' = log
    /\ UNCHANGED <<job, jobplan, build, locks, pending, failures, arg, delayed>>
    /\ UNCHANGED notJob

AbortVerdictOnly(j) == [j EXCEPT !.result = "aborted"]

\* lines 42-45: except UnrecoverableException
Abort(j) == [j EXCEPT !.status = "finished", !.result = "aborted"]

\* lines 30-47: the try block, then current_datetime = datetime.utcnow()
SyncJobExecute(w) ==
    /\ pc[w] = "exec"
    /\ \/ /\ plan[w] \in {"absent", "nosteps"}
          /\ mem' = [mem EXCEPT ![w] = Abort(@)]
          /\ log' = [log EXCEPT ![w] = @ \cup {"unrecoverable"}]
       \/ /\ plan[w] = "ok"
          /\ \E o \in Execute(mem[w]) : mem' = [mem EXCEPT ![w] = o]
          /\ log' = [log EXCEPT ![w] = @ \cup {"execute"}]
       \/ /\ plan[w] = "ok"
          /\ \E o \in Execute(mem[w]) : mem' = [mem EXCEPT ![w] = Abort(o)]
          /\ log' = [log EXCEPT ![w] = @ \cup {"execute", "unrecoverable"}]
    /\ pc' = [pc EXCEPT ![w] = "commit"]
    /\ UNCHANGED <<job, jobplan, build, locks, pending, failures, arg, prev, plan, delayed>>
    /\ UNCHANGED notJob

\* lines 49-52: job.date_modified, db.session.add(job), db.session.commit()
SyncJobCommit(w) ==
    /\ pc[w] = "commit"
    /\ job' = [job EXCEPT ![arg[w]] = mem[w]]
    /\ pc' = [pc EXCEPT ![w] = IF mem[w].build_id # None /\ mem[w].status # prev[w]
                               THEN "build" ELSE "enqueue"]
    /\ UNCHANGED <<jobplan, build, locks, pending, failures, arg, mem, prev, plan, delayed, log>>
    /\ UNCHANGED notJob

\* lines 56-66: the conditional update of the Build and its commit
SyncJobUpdateBuild(w) ==
    /\ pc[w] = "build"
    /\ build' = UpdateBuild(build, mem[w])
    /\ pc' = [pc EXCEPT ![w] = "publish"]
    /\ log' = [log EXCEPT ![w] = @ \cup {"build_update"}]
    /\ UNCHANGED <<job, jobplan, locks, pending, failures, arg, mem, prev, plan, delayed>>
    /\ UNCHANGED notJob

\* lines 68-70: build = Build.query.get(...); publish_build_update(build)
SyncJobPublishBuild(w) ==
    /\ pc[w] = "publish"
    /\ log' = [log EXCEPT ![w] = @ \cup {"publish_build"}]
    /\ pc' = [pc EXCEPT ![w] = "enqueue"]
    /\ UNCHANGED <<job, jobplan, build, locks, pending, failures, arg, mem, prev, plan, delayed>>
    /\ UNCHANGED notJob

FanOutAlwaysPlanStats(j, id, p) ==
    (IF j.build_id # None THEN <<Task("update_build_result", id, 0)>> ELSE <<>>)
    \o <<Task("update_project_stats", id, StatsCountdown),
         Signal("notify_listeners", id, "job.finished"),
         Task("update_project_plan_stats", id, StatsCountdown)>>

\* lines 78-97: the tasks enqueued for a finished Job
FanOut(j, id, p) ==
    (IF j.build_id # None THEN <<Task("update_build_result", id, 0)>> ELSE <<>>)
    \o <<Task("update_project_stats", id, StatsCountdown),
         Signal("notify_listeners", id, "job.finished")>>
    \o (IF p # "absent" THEN <<Task("update_project_plan_stats", id, StatsCountdown)>> ELSE <<>>)

\* lines 73-97: continuation or fan-out
SyncJobEnqueue(w) ==
    /\ pc[w] = "enqueue"
    /\ delayed' = [delayed EXCEPT ![w] =
            IF mem[w].status # "finished"
            THEN @ \o <<Task("sync_job", arg[w], SyncCountdown)>>
            ELSE @ \o FanOut(mem[w], arg[w], plan[w])]
    /\ pc' = [pc EXCEPT ![w] = "pubjob"]
    /\ UNCHANGED <<job, jobplan, build, locks, pending, failures, arg, mem, prev, plan, log>>
    /\ UNCHANGED notJob

\* line 99: publish_job_update(job)
SyncJobPublishJob(w) ==
    /\ pc[w] = "pubjob"
    /\ log' = [log EXCEPT ![w] = @ \cup {"publish_job"}]
    /\ pc' = [pc EXCEPT ![w] = "exit"]
    /\ UNCHANGED <<job, jobplan, build, locks, pending, failures, arg, mem, prev, plan, delayed>>
    /\ UNCHANGED notJob

InBody(w) == pc[w] \in {"get", "exec", "commit", "build", "publish", "enqueue", "pubjob"}

\* any statement of _sync_job raises an exception other than UnrecoverableException
SyncJobRaise(w) ==
    /\ InBody(w)
    /\ failures < MaxFailures
    /\ failures' = failures + 1
    /\ pc' = [pc EXCEPT ![w] = "except"]
    /\ log' = [log EXCEPT ![w] = @ \cup {"raised"}]
    /\ UNCHANGED <<job, jobplan, build, locks, pending, arg, mem, prev, plan, delayed>>
    /\ UNCHANGED notJob

SyncJobSwallow(w) ==
    /\ pc[w] = "except"
    /\ pc' = [pc EXCEPT ![w] = "exit"]
    /\ UNCHANGED <<job, jobplan, build, locks, pending, failures, arg, mem, prev, plan, delayed, log>>
    /\ UNCHANGED notJob

\* lines 107-113: except Exception: raise queue.retry('sync_job', ..., countdown=60)
SyncJobRetry(w) ==
    /\ pc[w] = "except"
    /\ delayed' = [delayed EXCEPT ![w] = @ \o <<Retry("sync_job", arg[w], RetryCountdown)>>]
    /\ pc' = [pc EXCEPT ![w] = "exit"]
    /\ UNCHANGED <<job, jobplan, build, locks, pending, failures, arg, mem, prev, plan, log>>
    /\ UNCHANGED notJob

\* the decorator releases the lock; the countdown of the enqueued sync_job
\* tasks outlasts the invocation, so they become deliverable from here on
SyncJobExit(w) ==
    /\ pc[w] = "exit"
    /\ locks' = locks \ {LockKey("sync_job", arg[w])}
    /\ pending' = [pending EXCEPT ![arg[w]] = @ + CountTasks(delayed[w], "sync_job")]
    /\ pc' = [pc EXCEPT ![w] = "idle"]
    /\ arg' = [arg EXCEPT ![w] = None]
    /\ mem' = [mem EXCEPT ![w] = NoJob]
    /\ prev' = [prev EXCEPT ![w] = None]
    /\ plan' = [plan EXCEPT ![w] = None]
    /\ delayed' = [delayed EXCEPT ![w] = <<>>]
    /\ log' = [log EXCEPT ![w] = {}]
    /\ UNCHANGED <<job, jobplan, build, failures>>
    /\ UNCHANGED notJob

InitJob(b, s) ==
    [exists |-> TRUE, status |-> s, result |-> "unknown",
     date_started |-> NoDate, build_id |-> b]

InitBuild(s) == [status |-> s, result |-> "unknown", date_started |-> NoDate]

\* the second Job: no row, a Job of the same Build, a Job without a Build
JobProfiles ==
    { [row |-> NoJob, plan |-> "absent"],
      [row |-> InitJob("b1", "unknown"), plan |-> "ok"],
      [row |-> InitJob(None, "unknown"), plan |-> "nosteps"],
      [row |-> InitJob(None, "unknown"), plan |-> "absent"] }

InitSyncJob ==
    /\ \E s \in {"unknown", "queued"} : build = InitBuild(s)
    /\ \E p \in JobProfiles :
          /\ job = [j \in Jobs |-> IF j = "j1" THEN InitJob("b1", "queued") ELSE p.row]
          /\ \E k \in PlanKinds : jobplan = [j \in Jobs |-> IF j = "j1" THEN k ELSE p.plan]
    /\ pending = [j \in Jobs |-> 1]
    /\ failures = 0
    /\ pc = [w \in Workers |-> "idle"]
    /\ arg = [w \in Workers |-> None]
    /\ mem = [w \in Workers |-> NoJob]
    /\ prev = [w \in Workers |-> None]
    /\ plan = [w \in Workers |-> None]
    /\ delayed = [w \in Workers |-> <<>>]
    /\ log = [w \in Workers |-> {}]

\* no Job rows and no sync_job task
NoSyncJob ==
    /\ build = InitBuild("unknown")
    /\ job = [j \in Jobs |-> NoJob]
    /\ jobplan = [j \in Jobs |-> "absent"]
    /\ pending = [j \in Jobs |-> 0]
    /\ failures = 0
    /\ pc = [w \in Workers |-> "idle"]
    /\ arg = [w \in Workers |-> None]
    /\ mem = [w \in Workers |-> NoJob]
    /\ prev = [w \in Workers |-> None]
    /\ plan = [w \in Workers |-> None]
    /\ delayed = [w \in Workers |-> <<>>]
    /\ log = [w \in Workers |-> {}]

(***************************************************************************)
(* The Command report endpoint: CommandDetailsAPIView.post                 *)
(***************************************************************************)
Reqs == {"q1", "q2"}

\* line 20
StatusChoices == {"queued", "in_progress", "finished"}

CommandTypes == {"collect_steps", "collect_tests", "setup"}

\* lines 22-25 and 122-123: EXPANDERS.get(type)
GetExpander(type) ==
    CASE type = "collect_steps" -> "CommandsExpander"
      [] type = "collect_tests" -> "TestsExpander"
      [] OTHER -> None

\* an absent return_code
NoCode == -1

\* the output of a report: absent (or empty), or a document that the expander
\* accepts and expands to n step descriptors, rejects with an AssertionError,
\* or fails on with another exception
NoOutput == [given |-> FALSE, valid |-> "ok", n |-> 0]

Outputs ==
    {NoOutput}
    \cup {[given |-> TRUE, valid |-> "ok", n |-> k] : k \in 0..MaxExpand}
    \cup {[given |-> TRUE, valid |-> v, n |-> 0] : v \in {"assertion", "error"}}

Args == [status : StatusChoices \cup {None}, return_code : {NoCode, 0}, output : Outputs]

NoArgs == [status |-> None, return_code |-> NoCode, output |-> NoOutput]

NoCommand == [exists |-> FALSE, status |-> "unknown", return_code |-> NoCode,
              date_started |-> NoDate, date_finished |-> NoDate,
              type |-> "setup", step_result |-> "unknown"]

NoPhase == [id |-> 0, status |-> "unknown", result |-> "unknown", steps |-> 0]

\* lines 51-54: the report takes the lock
NeedsLock(a) == a.output.given \/ a.status = "finished"

ReqIdle(r) == rpc[r] = "new"

\* the request slots are interchangeable: a request goes to the first free one
FirstFree(r) == ReqIdle(r) /\ (r = "q1" \/ ~ReqIdle("q1"))

HoldsLockIfAnswered(r) ==
    NeedsLock(rargs[r]) /\ rpc[r] # "new" /\ resp[r] = "200"

\* the request holds the lock of its Command
HoldsLock(r) == NeedsLock(rargs[r]) /\ rpc[r] # "new" /\ resp[r] # "lock_unavailable"

\* lines 45-57: parse the arguments, take the lock; current_datetime is the
\* time of arrival, the ordinal of the report
ReportEnter(r, a) ==
    /\ FirstFree(r)
    /\ reports < MaxReports
    /\ reports' = reports + 1
    /\ rargs' = [rargs EXCEPT ![r] = a]
    /\ rnow' = [rnow EXCEPT ![r] = reports + 1]
    /\ IF NeedsLock(a) /\ ~LockFree(locks, LockKey("expand", "c1"))
       THEN /\ resp' = [resp EXCEPT ![r] = "lock_unavailable"]
            /\ rpc' = [rpc EXCEPT ![r] = "exit"]
            /\ locks' = locks
       ELSE /\ locks' = IF NeedsLock(a) THEN locks \cup {LockKey("expand", "c1")} ELSE locks
            /\ rpc' = [rpc EXCEPT ![r] = "load"]
            /\ resp' = resp
    /\ UNCHANGED <<command, phases, scheduled, skipped, rdirty, rsess, rnew>>
    /\ UNCHANGED notCmd

\* lines 70-82: the status of the report and the two timestamps
ApplyStatus(c, st, t) ==
    LET c1 == [c EXCEPT !.status = st]
        c2 == IF c1.status = "finished" /\ c1.date_finished = NoDate
              THEN [c1 EXCEPT !.date_finished = t]
              ELSE IF c1.status # "finished" /\ c1.date_finished # NoDate
              THEN [c1 EXCEPT !.date_finished = NoDate]
              ELSE c1
    IN  IF c2.status # "queued" /\ c2.date_started = NoDate
        THEN [c2 EXCEPT !.date_started = t]
        ELSE IF c2.status = "queued" /\ c2.date_started # NoDate
        THEN [c2 EXCEPT !.date_started = NoDate]
        ELSE c2

\* lines 67-82
ApplyArgs(c, a, t) ==
    LET c1 == IF a.return_code # NoCode THEN [c EXCEPT !.return_code = a.return_code] ELSE c
    IN  IF a.status # None THEN ApplyStatus(c1, a.status, t) ELSE c1

NewPhaseQueued(id, n) == [id |-> id, status |-> "queued", result |-> "unknown", steps |-> n]

\* lines 131-151: the new JobPhase and one JobStep for each descriptor
NewPhase(id, n) ==
    [id |-> id,
     status |-> IF n = 0 THEN "finished" ELSE "queued",
     result |-> IF n = 0 THEN "passed" ELSE "unknown",
     steps |-> n]

\* how the request leaves lines 60-151: the Command in its session, the
\* JobPhase added to the session, the response when it returns here, whether
\* the skip counter is incremented, and where it continues
Outcome(c, ph, rs, sk, to) == [sess |-> c, new |-> ph, resp |-> rs, skip |-> sk, pc |-> to]

ExpandOutcomesNoSkip(c, u, a, id) ==
    IF GetExpander(u.type) = None
    THEN {Outcome(u, NoPhase, None, 0, "commit")}
    ELSE IF ~a.output.given \/ a.output.valid = "assertion"
    THEN {Outcome(c, NoPhase, "400", 0, "exit")}
    ELSE IF a.output.valid = "error"
    THEN {Outcome(c, NoPhase, "500", 0, "exit")}
    ELSE {Outcome(u, NewPhase(id, a.output.n), None, 0, "schedule"),
          Outcome(u, NoPhase, "500", 0, "exit")}

\* lines 87-112 and 125-151: skip, reject, or validate and expand; c is the
\* Command as loaded, u the Command as updated and flushed
ExpandOutcomes(c, u, a, id) ==
    IF u.step_result \in {"aborted", "failed", "infra_failed"}
    THEN {Outcome(u, NoPhase, "200", 1, "exit")}
    ELSE IF GetExpander(u.type) = None
    THEN {Outcome(u, NoPhase, None, 0, "commit")}
    ELSE IF ~a.output.given \/ a.output.valid = "assertion"
    THEN {Outcome(c, NoPhase, "400", 0, "exit")}
    ELSE IF a.output.valid = "error"
    THEN {Outcome(c, NoPhase, "500", 0, "exit")}
    ELSE {Outcome(u, NewPhase(id, a.output.n), None, 0, "schedule"),
          Outcome(u, NoPhase, "500", 0, "exit")}

PostOutcomesLate(c, a, t, id) ==
    IF ~c.exists
    THEN {Outcome(c, NoPhase, "404", 0, "exit")}
    ELSE IF c.status = "finished"
    THEN {Outcome(ApplyArgs(c, a, t), NoPhase, "400", 0, "commit")}
    ELSE IF NeedsLock(a)
    THEN ExpandOutcomes(c, ApplyArgs(c, a, t), a, id)
    ELSE {Outcome(ApplyArgs(c, a, t), NoPhase, None, 0, "commit")}

\* lines 60-151 up to the flush of line 153
PostOutcomes(c, a, t, id) ==
    IF ~c.exists
    THEN {Outcome(c, NoPhase, "404", 0, "exit")}
    ELSE IF c.status = "finished"
    THEN {Outcome(c, NoPhase, "400", 0, "exit")}
    ELSE IF NeedsLock(a)
    THEN ExpandOutcomes(c, ApplyArgs(c, a, t), a, id)
    ELSE {Outcome(ApplyArgs(c, a, t), NoPhase, None, 0, "commit")}

\* the columns of the Command that the session changed
Dirty(c, u) == {f \in DOMAIN c : u[f] # c[f]}

\* lines 60-151: load the Command, update it in the session, expand
ReportHandle(r) ==
    /\ rpc[r] = "load"
    /\ \E o \in PostOutcomes(command, rargs[r], rnow[r], rnow[r]) :
          /\ rsess' = [rsess EXCEPT ![r] = o.sess]
          /\ rdirty' = [rdirty EXCEPT ![r] = Dirty(command, o.sess)]
          /\ rnew' = [rnew EXCEPT ![r] = o.new]
          /\ resp' = [resp EXCEPT ![r] = o.resp]
          /\ skipped' = skipped + o.skip
          /\ rpc' = [rpc EXCEPT ![r] = o.pc]
    /\ UNCHANGED <<locks, command, phases, scheduled, reports, rargs, rnow>>
    /\ UNCHANGED notCmd

StepTasksOrphan(ph) ==
    [i \in 1..ph.steps |->
        [step_id |-> <<ph.id, i>>, task_id |-> <<ph.id, i>>, parent_task_id |-> None]]

\* lines 155-160: sync_job_step.delay_if_needed for each new JobStep
StepTasks(ph) ==
    [i \in 1..ph.steps |->
        [step_id |-> <<ph.id, i>>, task_id |-> <<ph.id, i>>, parent_task_id |-> "j1"]]

\* lines 153-162: flush, then schedule the new JobSteps
ReportSchedule(r) ==
    /\ rpc[r] = "schedule"
    /\ scheduled' = scheduled \o StepTasks(rnew[r])
    /\ rpc' = [rpc EXCEPT ![r] = "commit"]
    /\ UNCHANGED <<locks, command, phases, skipped, reports, rargs, rnow, rdirty, rsess, rnew, resp>>
    /\ UNCHANGED notCmd

\* the UPDATE of a flush sets the columns the session changed
MergeRow(row, dirty, sess) ==
    [f \in DOMAIN row |-> IF f \in dirty THEN sess[f] ELSE row[f]]

\* line 114: db.session.commit()
ReportCommit(r) ==
    /\ rpc[r] = "commit"
    /\ command' = MergeRow(command, rdirty[r], rsess[r])
    /\ phases' = IF rnew[r] # NoPhase THEN Append(phases, rnew[r]) ELSE phases
    /\ resp' = [resp EXCEPT ![r] = "200"]
    /\ rpc' = [rpc EXCEPT ![r] = "exit"]
    /\ UNCHANGED <<locks, scheduled, skipped, reports, rargs, rnow, rdirty, rsess, rnew>>
    /\ UNCHANGED notCmd

\* lines 116-120: release the lock; the session ends with the request
ReportExit(r) ==
    /\ rpc[r] = "exit"
    /\ locks' = IF HoldsLock(r) THEN locks \ {LockKey("expand", "c1")} ELSE locks
    /\ rpc' = [rpc EXCEPT ![r] = "new"]
    /\ resp' = [resp EXCEPT ![r] = None]
    /\ rargs' = [rargs EXCEPT ![r] = NoArgs]
    /\ rnow' = [rnow EXCEPT ![r] = NoDate]
    /\ rdirty' = [rdirty EXCEPT ![r] = {}]
    /\ rsess' = [rsess EXCEPT ![r] = NoCommand]
    /\ rnew' = [rnew EXCEPT ![r] = NoPhase]
    /\ UNCHANGED <<command, phases, scheduled, skipped, reports>>
    /\ UNCHANGED notCmd

InitCommand(ty, sr) ==
    [exists |-> TRUE, status |-> "queued", return_code |-> NoCode,
     date_started |-> NoDate, date_finished |-> NoDate,
     type |-> ty, step_result |-> sr]

NoRequest ==
    /\ phases = <<>>
    /\ scheduled = <<>>
    /\ skipped = 0
    /\ reports = 0
    /\ rpc = [r \in Reqs |-> "new"]
    /\ rargs = [r \in Reqs |-> NoArgs]
    /\ rnow = [r \in Reqs |-> NoDate]
    /\ rdirty = [r \in Reqs |-> {}]
    /\ rsess = [r \in Reqs |-> NoCommand]
    /\ rnew = [r \in Reqs |-> NoPhase]
    /\ resp = [r \in Reqs |-> None]

\* no Command row and no request
NoReport ==
    /\ command = NoCommand
    /\ NoRequest

\* the Command is absent, or queued with any type and any result of its
\* JobStep that line 89 tells apart from passed
InitReport ==
    /\ \/ command = NoCommand
       \/ \E ty \in CommandTypes, sr \in Result \ {"passed"} : command = InitCommand(ty, sr)
    /\ NoRequest

(***************************************************************************)
(* The green-build listener: build_finished_handler                        *)
(***************************************************************************)
GBuilds == {"B1", "B2"}

\* Builds recorded as latest green before the signals arrive
PriorBuilds == {"P0", "P3", "PX"}

Handlers == {"h1", "h2"}

Branches == {"master", "stable"}

\* the history of the repository: r0 - r1 - r2 on one line, r3 a child of r0
\* off that line; "gone" and "rx" are revisions the VCS does not know
KnownRevs == {"r0", "r1", "r2", "r3"}

Parent(rev) ==
    CASE rev = "r1" -> "r0"
      [] rev = "r2" -> "r1"
      [] rev = "r3" -> "r0"
      [] OTHER -> None

RECURSIVE IsAncestor(_, _)
\* parent is child or one of its ancestors
IsAncestor(parent, child) ==
    IF child = None THEN FALSE
    ELSE IF parent = child THEN TRUE
    ELSE IsAncestor(parent, Parent(child))

\* vcs.is_child_parent: the answer, or the exception it raises
IsChildParent(child, parent) ==
    (IF child \notin KnownRevs THEN {"UnknownChildRevision"} ELSE {})
    \cup (IF parent \notin KnownRevs THEN {"UnknownParentRevision"} ELSE {})
    \cup (IF child \in KnownRevs /\ parent \in KnownRevs
          THEN {IF IsAncestor(parent, child) THEN "child" ELSE "not_child"}
          ELSE {})

NoGBuild == [exists |-> FALSE, result |-> "unknown", commit |-> FALSE, vcs |-> FALSE,
             rev |-> None, branches |-> <<>>]

GBuildRow(res, com, rev, brs) ==
    [exists |-> TRUE, result |-> res, commit |-> com, vcs |-> TRUE, rev |-> rev, branches |-> brs]

\* build.source.revision_sha of any Build, the prior ones included
RevisionOf(b) ==
    CASE b = "P0" -> "r0"
      [] b = "P3" -> "r3"
      [] b = "PX" -> "gone"
      [] OTHER -> gbuild[b].rev

HIdle(h) == hpc[h] = "idle"

\* the invocations are interchangeable: a signal goes to the first idle one
FirstHIdle(h) == HIdle(h) /\ (h = "h1" \/ ~HIdle("h1"))

\* @lock def build_finished_handler(build_id): the signal arrives, the
\* decorator tries the lock
GreenCall(h, b) ==
    /\ FirstHIdle(h)
    /\ signals < MaxSignals
    /\ signals' = signals + 1
    /\ IF LockFree(locks, LockKey("build_finished_handler", b))
       THEN /\ locks' = locks \cup {LockKey("build_finished_handler", b)}
            /\ harg' = [harg EXCEPT ![h] = b]
            /\ hpc' = [hpc EXCEPT ![h] = "get"]
            /\ hlog' = [hlog EXCEPT ![h] = <<>>]
       ELSE /\ hlog' = [hlog EXCEPT ![h] = <<"abandoned">>]
            /\ UNCHANGED <<locks, harg, hpc>>
    /\ UNCHANGED <<gbuild, latest, cloned, events, hidx>>
    /\ UNCHANGED notGreen

GreenGetAnyResult(h) ==
    /\ hpc[h] = "get"
    /\ hpc' = [hpc EXCEPT ![h] =
          IF gbuild[harg[h]].exists /\ gbuild[harg[h]].commit /\ gbuild[harg[h]].vcs
          THEN "vcs" ELSE "exit"]
    /\ UNCHANGED <<locks, gbuild, latest, cloned, events, signals, harg, hidx, hlog>>
    /\ UNCHANGED notGreen

\* lines 66-82: the Build must exist, have passed and be a commit build
GreenGet(h) ==
    /\ hpc[h] = "get"
    /\ hpc' = [hpc EXCEPT ![h] =
          IF /\ gbuild[harg[h]].exists
             /\ gbuild[harg[h]].result = "passed"
             /\ gbuild[harg[h]].commit
             /\ gbuild[harg[h]].vcs
          THEN "vcs" ELSE "exit"]
    /\ UNCHANGED <<locks, gbuild, latest, cloned, events, signals, harg, hidx, hlog>>
    /\ UNCHANGED notGreen

VcsCall(calls, ok) == [calls |-> calls, ok |-> ok]

VcsOutcomesRetryAny(exists) ==
    IF exists
    THEN {VcsCall(<<"update">>, TRUE),
          VcsCall(<<"update", "CommandError", "update">>, TRUE),
          VcsCall(<<"update", "ConcurrentUpdateError", "update">>, TRUE),
          VcsCall(<<"update", "ConcurrentUpdateError", "update", "raised">>, FALSE)}
    ELSE {VcsCall(<<"clone">>, TRUE), VcsCall(<<"clone", "raised">>, FALSE)}

\* lines 85-92: the calls made on the VCS client and whether they got
\* through: update, once more after a ConcurrentUpdateError, or clone; any
\* other error, and any error of the second update, leaves the handler
VcsOutcomes(exists) ==
    IF exists
    THEN {VcsCall(<<"update">>, TRUE),
          VcsCall(<<"update", "raised">>, FALSE),
          VcsCall(<<"update", "ConcurrentUpdateError", "update">>, TRUE),
          VcsCall(<<"update", "ConcurrentUpdateError", "update", "raised">>, FALSE)}
    ELSE {VcsCall(<<"clone">>, TRUE), VcsCall(<<"clone", "raised">>, FALSE)}

\* lines 85-92: update the clone, once more after a ConcurrentUpdateError, or clone
GreenVcs(h) ==
    /\ hpc[h] = "vcs"
    /\ \E o \in VcsOutcomes(cloned) :
          /\ hlog' = [hlog EXCEPT ![h] = @ \o o.calls]
          /\ hpc' = [hpc EXCEPT ![h] = IF o.ok THEN "branch" ELSE "exit"]
          /\ cloned' = (cloned \/ o.ok)
    /\ hidx' = [hidx EXCEPT ![h] = 1]
    /\ UNCHANGED <<locks, gbuild, latest, events, signals, harg>>
    /\ UNCHANGED notGreen

\* the branch the loop of line 172 is at
BranchAt(h) == gbuild[harg[h]].branches[hidx[h]]

\* lines 172-209: look up the LatestGreenBuild of the branch and ask the VCS
GreenCheck(h) ==
    /\ hpc[h] = "branch"
    /\ IF hidx[h] > Len(gbuild[harg[h]].branches)
       THEN /\ hpc' = [hpc EXCEPT ![h] = "notify"]
            /\ hlog' = hlog
       ELSE IF latest[BranchAt(h)] = None
       THEN /\ hpc' = [hpc EXCEPT ![h] = "write"]
            /\ hlog' = [hlog EXCEPT ![h] = @ \o <<"no_row">>]
       ELSE \E a \in IsChildParent(gbuild[harg[h]].rev, RevisionOf(latest[BranchAt(h)])) :
            /\ hlog' = [hlog EXCEPT ![h] = @ \o <<a>>]
            /\ hpc' = [hpc EXCEPT ![h] =
                  IF a \in {"child", "UnknownParentRevision"} THEN "write" ELSE "notify"]
    /\ UNCHANGED <<locks, gbuild, latest, cloned, events, signals, harg, hidx>>
    /\ UNCHANGED notGreen

\* lines 211-217: create_or_update(LatestGreenBuild, ...), then the next branch
GreenWrite(h) ==
    /\ hpc[h] = "write"
    /\ latest' = [latest EXCEPT ![BranchAt(h)] = harg[h]]
    /\ hidx' = [hidx EXCEPT ![h] = @ + 1]
    /\ hpc' = [hpc EXCEPT ![h] = "branch"]
    /\ UNCHANGED <<locks, gbuild, cloned, events, signals, harg, hlog>>
    /\ UNCHANGED notGreen

Event(b, status) == [item_id |-> b, status |-> status]

CreateAlways(rows, b, status) == Append(rows, Event(b, status))

\* create_or_update(Event, where={type, item_id}, values={data: {status}}):
\* the row of the Build is updated, or inserted when there is none
CreateOrUpdate(rows, b, status) ==
    IF \E i \in 1..Len(rows) : rows[i].item_id = b
    THEN [i \in 1..Len(rows) |-> IF rows[i].item_id = b THEN Event(b, status) ELSE rows[i]]
    ELSE Append(rows, Event(b, status))

\* lines 136-157: the status recorded for the outcome of the POST
EventStatus(outcome) == IF outcome = "ok" THEN "success" ELSE "fail"

PostResults == {"ok", "409", "http_error", "exception"}

\* lines 98-167: the notification, when it is configured, and its Event
GreenNotify(h) ==
    /\ hpc[h] = "notify"
    /\ \/ /\ hlog' = [hlog EXCEPT ![h] = @ \o <<"not_configured">>]
          /\ events' = events
       \/ \E o \in PostResults :
             /\ hlog' = [hlog EXCEPT ![h] = @ \o <<"post", o>>]
             /\ events' = CreateOrUpdate(events, harg[h], EventStatus(o))
    /\ hpc' = [hpc EXCEPT ![h] = "exit"]
    /\ UNCHANGED <<locks, gbuild, latest, cloned, signals, harg, hidx>>
    /\ UNCHANGED notGreen

\* the decorator releases the lock
GreenExit(h) ==
    /\ hpc[h] = "exit"
    /\ locks' = locks \ {LockKey("build_finished_handler", harg[h])}
    /\ hpc' = [hpc EXCEPT ![h] = "idle"]
    /\ harg' = [harg EXCEPT ![h] = None]
    /\ hidx' = [hidx EXCEPT ![h] = 0]
    /\ hlog' = [hlog EXCEPT ![h] = <<>>]
    /\ UNCHANGED <<gbuild, latest, cloned, events, signals>>
    /\ UNCHANGED notGreen

NoHandler ==
    /\ cloned \in BOOLEAN
    /\ events = <<>>
    /\ signals = 0
    /\ hpc = [h \in Handlers |-> "idle"]
    /\ harg = [h \in Handlers |-> None]
    /\ hidx = [h \in Handlers |-> 0]
    /\ hlog = [h \in Handlers |-> <<>>]

\* no Build, no signal
NoGreen ==
    /\ gbuild = [b \in GBuilds |-> NoGBuild]
    /\ latest = [br \in Branches |-> None]
    /\ cloned = FALSE
    /\ events = <<>>
    /\ signals = 0
    /\ hpc = [h \in Handlers |-> "idle"]
    /\ harg = [h \in Handlers |-> None]
    /\ hidx = [h \in Handlers |-> 0]
    /\ hlog = [h \in Handlers |-> <<>>]

\* the first Build: absent, failed, not a commit build, without a VCS, or a passing commit
\* build of r1 or of a revision the VCS does not know, on one or two branches
FirstBuilds ==
    {NoGBuild, GBuildRow("failed", TRUE, "r1", <<"master">>),
     GBuildRow("passed", FALSE, "r1", <<"master">>),
     [GBuildRow("passed", TRUE, "r1", <<"master">>) EXCEPT !.vcs = FALSE]}
    \cup {GBuildRow("passed", TRUE, rev, brs) :
            rev \in {"r1", "rx"},
            brs \in {<<"master">>, <<"master", "stable">>, <<"stable", "master">>}}

\* the second Build: a passing commit build of r2 on master
InitGreen ==
    /\ \E b1 \in FirstBuilds :
          gbuild = [b \in GBuilds |-> IF b = "B1" THEN b1
                                     ELSE GBuildRow("passed", TRUE, "r2", <<"master">>)]
    /\ latest \in [Branches -> PriorBuilds \cup {None}]
    /\ NoHandler

(***************************************************************************)
(* sync_job_step, has_timed_out and is_missing_tests                       *)
(***************************************************************************)
StepWorkers == {"v1", "v2"}

Steps == {"s1", "s2"}

PhaseIds == {"setup", "test"}

\* the step that is synchronized, its phase, its job
TheStep == "s1"

ThePhase == "test"

StatNames == {"tests_missing", "lines_covered", "lines_uncovered",
              "diff_lines_covered", "diff_lines_uncovered"}

NoJobPhase == [exists |-> FALSE, date_started |-> NoDate, date_created |-> NoDate]

NoStep == [exists |-> FALSE, status |-> "unknown", result |-> "unknown", date_started |-> NoDate]

\* readings of the clock
Nows == 1..(MaxDate + 2)

HasTimedOutStrict(s, snap, now) ==
    /\ s.status = "in_progress"
    /\ s.date_started # NoDate
    /\ snap.timeout # 0
    /\ now - s.date_started > snap.timeout

\* has_timed_out(step, jobplan): false unless the step is in_progress with a
\* start time and build.timeout is not 0; then true iff elapsed >= timeout
HasTimedOut(s, snap, now) ==
    /\ s.status = "in_progress"
    /\ s.date_started # NoDate
    /\ snap.timeout # 0
    /\ now - s.date_started >= snap.timeout

\* the JobPhase ids of the Job
PhasesOf(ph) == {p \in DOMAIN ph : ph[p].exists}

IsEarliestCreated(ph, p) == \A q \in PhasesOf(ph) : ph[p].date_created <= ph[q].date_created

\* the phase with the earliest date_started
IsEarliest(ph, p) == \A q \in PhasesOf(ph) : ph[p].date_started <= ph[q].date_started

\* is_missing_tests(step, jobplan)
IsMissingTests(sid, phase, snap, ph, tcs) ==
    /\ snap.expect_tests
    /\ ~(Cardinality(PhasesOf(ph)) > 1 /\ IsEarliest(ph, phase))
    /\ ~\E i \in 1..Len(tcs) : tcs[i].step = sid

SumCoverageAll(rows, sid, name) ==
    LET f[i \in 0..Len(rows)] == IF i = 0 THEN 0 ELSE rows[i][name] + f[i - 1]
    IN  f[Len(rows)]

RECURSIVE SumCoverage(_, _, _)
\* the sum of one counter over the FileCoverage rows of a step
SumCoverage(rows, sid, name) ==
    IF rows = <<>> THEN 0
    ELSE (IF Head(rows).step = sid THEN Head(rows)[name] ELSE 0)
         + SumCoverage(Tail(rows), sid, name)

\* the Backend: update_step(step) moves the step as execute(job) moves a Job
UpdateStep(s) == Execute(s)

\* the Backend: cancel_step(step) may finish the step
CancelStep(s) == {s, [s EXCEPT !.status = "finished"]}

SIdle(v) == spc[v] = "idle"

FirstSIdle(v) == SIdle(v) /\ (v = "v1" \/ ~SIdle("v1"))

NoWrites == [stats |-> [n \in {} |-> 0], reasons |-> {}]

\* the task is delivered; the invocation runs under the lock of the step
SyncStepCall(v) ==
    /\ FirstSIdle(v)
    /\ spending > 0
    /\ spending' = spending - 1
    /\ IF LockFree(locks, LockKey("sync_job_step", TheStep))
       THEN /\ locks' = locks \cup {LockKey("sync_job_step", TheStep)}
            /\ spc' = [spc EXCEPT ![v] = "get"]
            /\ slog' = [slog EXCEPT ![v] = {"locked"}]
       ELSE /\ locks' = locks
            /\ spc' = spc
            /\ slog' = [slog EXCEPT ![v] = {"abandoned"}]
    /\ UNCHANGED <<step, task, snapshot, jobphases, testcases, coverage, stats, reasons,
                   sfailures, smem, swrites, sdelayed, snow, scalls>>
    /\ UNCHANGED notStep

SyncStepGetAnyStatus(v) ==
    /\ spc[v] = "get"
    /\ IF ~step.exists
       THEN /\ spc' = [spc EXCEPT ![v] = "exit"]
            /\ slog' = [slog EXCEPT ![v] = @ \cup {"noop"}]
            /\ smem' = smem
       ELSE /\ smem' = [smem EXCEPT ![v] = step]
            /\ spc' = [spc EXCEPT ![v] = "sync"]
            /\ slog' = slog
    /\ UNCHANGED <<locks, step, task, snapshot, jobphases, testcases, coverage, stats, reasons,
                   spending, sfailures, swrites, sdelayed, snow, scalls>>
    /\ UNCHANGED notStep

\* load the JobStep; nothing to do when it is absent or finished
SyncStepGet(v) ==
    /\ spc[v] = "get"
    /\ IF ~step.exists \/ step.status = "finished"
       THEN /\ spc' = [spc EXCEPT ![v] = "exit"]
            /\ slog' = [slog EXCEPT ![v] = @ \cup {"noop"}]
            /\ smem' = smem
       ELSE /\ smem' = [smem EXCEPT ![v] = step]
            /\ spc' = [spc EXCEPT ![v] = "sync"]
            /\ slog' = slog
    /\ UNCHANGED <<locks, step, task, snapshot, jobphases, testcases, coverage, stats, reasons,
                   spending, sfailures, swrites, sdelayed, snow, scalls>>
    /\ UNCHANGED notStep

SyncStepUpdateAlways(v) ==
    /\ spc[v] = "sync"
    /\ \E now \in Nows :
          /\ smem[v].date_started <= now
          /\ snow' = [snow EXCEPT ![v] = now]
          /\ \E u \in UpdateStep(smem[v]) : smem' = [smem EXCEPT ![v] = u]
          /\ slog' = [slog EXCEPT ![v] =
                @ \cup (IF HasTimedOut(smem[v], snapshot, now) THEN {"timed_out"} ELSE {})
                  \cup {"update_step"}]
          /\ scalls' = [scalls EXCEPT ![v] = @ \o <<"update_step">>]
    /\ spc' = [spc EXCEPT ![v] = IF smem'[v].status = "finished" THEN "finish" ELSE "save"]
    /\ UNCHANGED <<locks, step, task, snapshot, jobphases, testcases, coverage, stats, reasons,
                   spending, sfailures, sdelayed, swrites>>
    /\ UNCHANGED notStep

\* the timeout check, then cancel_step or update_step
SyncStepUpdate(v) ==
    /\ spc[v] = "sync"
    /\ \E now \in Nows :
          /\ smem[v].date_started <= now
          /\ snow' = [snow EXCEPT ![v] = now]
          /\ IF HasTimedOut(smem[v], snapshot, now)
             THEN /\ \E c \in CancelStep(smem[v]) :
                        smem' = [smem EXCEPT ![v] = [c EXCEPT !.result = "failed"]]
                  /\ swrites' = [swrites EXCEPT ![v].reasons = @ \cup {"timeout"}]
                  /\ slog' = [slog EXCEPT ![v] = @ \cup {"timed_out", "cancel_step"}]
                  /\ scalls' = [scalls EXCEPT ![v] = @ \o <<"cancel_step">>]
             ELSE /\ \E u \in UpdateStep(smem[v]) : smem' = [smem EXCEPT ![v] = u]
                  /\ swrites' = swrites
                  /\ slog' = [slog EXCEPT ![v] = @ \cup {"update_step"}]
                  /\ scalls' = [scalls EXCEPT ![v] = @ \o <<"update_step">>]
    /\ spc' = [spc EXCEPT ![v] = IF smem'[v].status = "finished" THEN "finish" ELSE "save"]
    /\ UNCHANGED <<locks, step, task, snapshot, jobphases, testcases, coverage, stats, reasons,
                   spending, sfailures, sdelayed>>
    /\ UNCHANGED notStep

FinishStatsNoMissing(missing) ==
    [n \in StatNames |-> IF n = "tests_missing" THEN 0 ELSE SumCoverage(coverage, TheStep, n)]

\* the ItemStats written when a step finishes
FinishStats(missing) ==
    [n \in StatNames |->
        IF n = "tests_missing" THEN (IF missing THEN 1 ELSE 0)
        ELSE SumCoverage(coverage, TheStep, n)]

\* a TestCase of the step failed
HasTestFailures == \E i \in 1..Len(testcases) : testcases[i].step = TheStep /\ testcases[i].failed

\* the step became finished: test-completeness policy, coverage, failure reasons
SyncStepFinish(v) ==
    /\ spc[v] = "finish"
    /\ LET missing == IsMissingTests(TheStep, ThePhase, snapshot, jobphases, testcases)
       IN  /\ smem' = [smem EXCEPT ![v].result = IF missing THEN "failed" ELSE @]
           /\ swrites' = [swrites EXCEPT
                  ![v].stats = FinishStats(missing),
                  ![v].reasons = @ \cup (IF missing THEN {"missing_tests"} ELSE {})
                                     \cup (IF HasTestFailures THEN {"test_failures"} ELSE {})]
    /\ spc' = [spc EXCEPT ![v] = "save"]
    /\ UNCHANGED <<locks, step, task, snapshot, jobphases, testcases, coverage, stats, reasons,
                   spending, sfailures, sdelayed, slog, snow, scalls>>
    /\ UNCHANGED notStep

\* the ids of the task: step_id, task_id, parent_task_id
StepTask(countdown) ==
    [name |-> "sync_job_step", id |-> <<TheStep, TheStep, "j1">>, countdown |-> countdown,
     signal |-> None, retry |-> FALSE]

RequeueAlways(s) == <<StepTask(SyncCountdown)>>

\* the continuation: a step that is not finished is synchronized again
Requeue(s) == IF s.status = "finished" THEN <<>> ELSE <<StepTask(SyncCountdown)>>

\* commit the step and its artifacts, mirror the status in the Task, re-enqueue
SyncStepSave(v) ==
    /\ spc[v] = "save"
    /\ step' = smem[v]
    /\ stats' = [n \in DOMAIN stats \cup DOMAIN swrites[v].stats |->
                    IF n \in DOMAIN swrites[v].stats THEN swrites[v].stats[n] ELSE stats[n]]
    /\ reasons' = reasons \cup swrites[v].reasons
    /\ task' = smem[v].status
    /\ sdelayed' = [sdelayed EXCEPT ![v] = @ \o Requeue(smem[v])]
    /\ spc' = [spc EXCEPT ![v] = "exit"]
    /\ UNCHANGED <<locks, snapshot, jobphases, testcases, coverage,
                   spending, sfailures, smem, swrites, slog, snow, scalls>>
    /\ UNCHANGED notStep

\* a statement of the task raises: the session is lost, the task is retried
SyncStepRaise(v) ==
    /\ spc[v] \in {"get", "sync", "finish", "save"}
    /\ sfailures < MaxFailures
    /\ sfailures' = sfailures + 1
    /\ sdelayed' = [sdelayed EXCEPT ![v] =
          @ \o <<[StepTask(RetryCountdown) EXCEPT !.retry = TRUE]>>]
    /\ slog' = [slog EXCEPT ![v] = @ \cup {"raised"}]
    /\ spc' = [spc EXCEPT ![v] = "exit"]
    /\ UNCHANGED <<locks, step, task, snapshot, jobphases, testcases, coverage, stats, reasons,
                   spending, smem, swrites, snow, scalls>>
    /\ UNCHANGED notStep

\* the lock is released; the enqueued tasks become deliverable
SyncStepExit(v) ==
    /\ spc[v] = "exit"
    /\ locks' = locks \ {LockKey("sync_job_step", TheStep)}
    /\ spending' = spending + CountTasks(sdelayed[v], "sync_job_step")
    /\ spc' = [spc EXCEPT ![v] = "idle"]
    /\ smem' = [smem EXCEPT ![v] = NoStep]
    /\ swrites' = [swrites EXCEPT ![v] = NoWrites]
    /\ sdelayed' = [sdelayed EXCEPT ![v] = <<>>]
    /\ slog' = [slog EXCEPT ![v] = {}]
    /\ snow' = [snow EXCEPT ![v] = NoDate]
    /\ scalls' = [scalls EXCEPT ![v] = <<>>]
    /\ UNCHANGED <<step, task, snapshot, jobphases, testcases, coverage, stats, reasons, sfailures>>
    /\ UNCHANGED notStep

NoStepWorker ==
    /\ stats = [n \in {} |-> 0]
    /\ reasons = {}
    /\ sfailures = 0
    /\ spc = [v \in StepWorkers |-> "idle"]
    /\ smem = [v \in StepWorkers |-> NoStep]
    /\ swrites = [v \in StepWorkers |-> NoWrites]
    /\ sdelayed = [v \in StepWorkers |-> <<>>]
    /\ slog = [v \in StepWorkers |-> {}]
    /\ snow = [v \in StepWorkers |-> NoDate]
    /\ scalls = [v \in StepWorkers |-> <<>>]

\* no JobStep and no task
NoSyncStep ==
    /\ step = NoStep
    /\ task = "unknown"
    /\ snapshot = [timeout |-> 0, expect_tests |-> FALSE]
    /\ jobphases = [p \in PhaseIds |-> NoJobPhase]
    /\ testcases = <<>>
    /\ coverage = <<>>
    /\ spending = 0
    /\ NoStepWorker

Phase(started, created) ==
    [exists |-> TRUE, date_started |-> started, date_created |-> created]

\* the Job has the phase of the step alone, or a setup phase as well, started
\* before or after the phase of the step
PhaseTables ==
    { [p \in PhaseIds |-> IF p = ThePhase THEN Phase(1, 1) ELSE NoJobPhase],
      [p \in PhaseIds |-> IF p = ThePhase THEN Phase(2, 1) ELSE Phase(1, 2)],
      [p \in PhaseIds |-> IF p = ThePhase THEN Phase(1, 2) ELSE Phase(2, 1)] }

TestCase(sid, failed) == [step |-> sid, failed |-> failed]

TestTables ==
    { <<>>, <<TestCase("s2", FALSE)>>, <<TestCase("s1", FALSE)>>,
      <<TestCase("s2", TRUE), TestCase("s1", TRUE)>> }

FileCoverage(sid, lc, lu, dc, du) ==
    [step |-> sid, lines_covered |-> lc, lines_uncovered |-> lu,
     diff_lines_covered |-> dc, diff_lines_uncovered |-> du]

CoverageTables ==
    { <<>>,
      <<FileCoverage("s1", 6, 5, 3, 2)>>,
      <<FileCoverage("s1", 6, 5, 3, 2), FileCoverage("s2", 1, 1, 1, 1),
        FileCoverage("s1", 1, 0, 1, 0)>> }

InitSyncStep ==
    /\ \E s \in {"unknown", "queued"} :
          /\ step = [exists |-> TRUE, status |-> s, result |-> "unknown", date_started |-> NoDate]
          /\ task = s
    /\ snapshot \in [timeout : 0..MaxTimeout, expect_tests : BOOLEAN]
    /\ jobphases \in PhaseTables
    /\ testcases \in TestTables
    /\ coverage \in CoverageTables
    /\ spending = 2
    /\ NoStepWorker

(***************************************************************************)
(* buildbox.models.step.Step                                               *)
(***************************************************************************)
\* a member of an enumeration of buildbox.constants
Member(enum, name) == [enum |-> enum, name |-> name]

StatusVocabulary == {Member("Status", n) : n \in Status}

ResultVocabulary == {Member("Result", n) : n \in Result}

\* status or result not given to the constructor: the attribute is None
NotGiven == Member(None, None)

\* the keyword arguments of Step(...): None stands for an argument not given
StepKwargs ==
    [id : {None, "given"},
     status : StatusVocabulary \cup {NotGiven},
     result : ResultVocabulary \cup {NotGiven},
     date_created : {None, "given"}]

\* lines 34-43: Step.__init__ fills in what was not given; line 41 assigns
\* Result.unknown to status
StepInit(kw) ==
    [id |-> IF kw.id = None THEN "uuid4" ELSE kw.id,
     result |-> IF kw.result = NotGiven THEN Member("Result", "unknown") ELSE kw.result,
     status |-> IF kw.status = NotGiven THEN Member("Result", "unknown") ELSE kw.status,
     date_created |-> IF kw.date_created = None THEN "utcnow" ELSE kw.date_created]

\* Step(**kw)
StepNew(kw) ==
    /\ Len(bsteps) < MaxSteps
    /\ bsteps' = Append(bsteps, [kwargs |-> kw, obj |-> StepInit(kw)])
    /\ UNCHANGED notModel

NoStepObjects == bsteps = <<>>

(***************************************************************************)
(* Specifications: one for each engine, the others at rest                 *)
(***************************************************************************)
Init ==
    /\ locks = {}
    /\ InitSyncJob
    /\ NoReport
    /\ NoGreen
    /\ NoSyncStep
    /\ NoStepObjects

Next ==
    \/ \E w \in Workers, j \in Jobs : SyncJobCall(w, j)
    \/ \E w \in Workers : SyncJobGet(w)
    \/ \E w \in Workers : SyncJobExecute(w)
    \/ \E w \in Workers : SyncJobCommit(w)
    \/ \E w \in Workers : SyncJobUpdateBuild(w)
    \/ \E w \in Workers : SyncJobPublishBuild(w)
    \/ \E w \in Workers : SyncJobEnqueue(w)
    \/ \E w \in Workers : SyncJobPublishJob(w)
    \/ \E w \in Workers : SyncJobRaise(w)
    \/ \E w \in Workers : SyncJobRetry(w)
    \/ \E w \in Workers : SyncJobExit(w)

Spec == Init /\ [][Next]_vars

\* the queue delivers every task it holds to a free worker
Delivery == \A j \in Jobs : WF_vars(\E w \in Workers : SyncJobCall(w, j))

\* a started invocation runs to its end; exceptions are not owed
Progress ==
    \A w \in Workers :
        WF_vars(\/ SyncJobGet(w) \/ SyncJobExecute(w) \/ SyncJobCommit(w)
                \/ SyncJobUpdateBuild(w) \/ SyncJobPublishBuild(w)
                \/ SyncJobEnqueue(w) \/ SyncJobPublishJob(w)
                \/ SyncJobRetry(w) \/ SyncJobExit(w))

SpecLive == Init /\ [][Next]_vars /\ Delivery /\ Progress

InitModel ==
    /\ locks = {}
    /\ NoSyncJob
    /\ NoReport
    /\ NoGreen
    /\ NoSyncStep
    /\ NoStepObjects

NextModel == \E kw \in StepKwargs : StepNew(kw)

SpecModel == InitModel /\ [][NextModel]_vars

InitCmd ==
    /\ locks = {}
    /\ NoSyncJob
    /\ InitReport
    /\ NoGreen
    /\ NoSyncStep
    /\ NoStepObjects

NextCmd ==
    \/ \E r \in Reqs, a \in Args : ReportEnter(r, a)
    \/ \E r \in Reqs : ReportHandle(r)
    \/ \E r \in Reqs : ReportSchedule(r)
    \/ \E r \in Reqs : ReportCommit(r)
    \/ \E r \in Reqs : ReportExit(r)

SpecCmd == InitCmd /\ [][NextCmd]_vars

\* the endpoint serving a Command of one type of each kind: with an
\* expander or without, its JobStep failed or not
InitCmdLock ==
    /\ locks = {}
    /\ NoSyncJob
    /\ \/ command = NoCommand
       \/ \E ty \in {"collect_steps", "setup"}, sr \in {"unknown", "failed"} :
              command = InitCommand(ty, sr)
    /\ NoRequest
    /\ NoGreen
    /\ NoSyncStep
    /\ NoStepObjects

SpecCmdLock == InitCmdLock /\ [][NextCmd]_vars

InitGreenSpec ==
    /\ locks = {}
    /\ NoSyncJob
    /\ NoReport
    /\ InitGreen
    /\ NoSyncStep
    /\ NoStepObjects

NextGreen ==
    \/ \E h \in Handlers, b \in GBuilds : GreenCall(h, b)
    \/ \E h \in Handlers : GreenGet(h)
    \/ \E h \in Handlers : GreenVcs(h)
    \/ \E h \in Handlers : GreenCheck(h)
    \/ \E h \in Handlers : GreenWrite(h)
    \/ \E h \in Handlers : GreenNotify(h)
    \/ \E h \in Handlers : GreenExit(h)

SpecGreen == InitGreenSpec /\ [][NextGreen]_vars

InitStep ==
    /\ locks = {}
    /\ NoSyncJob
    /\ NoReport
    /\ NoGreen
    /\ InitSyncStep
    /\ NoStepObjects

NextStep ==
    \/ \E v \in StepWorkers : SyncStepCall(v)
    \/ \E v \in StepWorkers : SyncStepGet(v)
    \/ \E v \in StepWorkers : SyncStepUpdate(v)
    \/ \E v \in StepWorkers : SyncStepFinish(v)
    \/ \E v \in StepWorkers : SyncStepSave(v)
    \/ \E v \in StepWorkers : SyncStepRaise(v)
    \/ \E v \in StepWorkers : SyncStepExit(v)

SpecStep == InitStep /\ [][NextStep]_vars

(***************************************************************************)
(* Properties of sync_job_step                                             *)
(***************************************************************************)
\* C6: an invocation of sync_job_step that leaves the JobStep finished leaves
\* the Task finished and enqueues no sync_job_step; one that leaves it not
\* finished leaves the Task with the status of the JobStep and enqueues
\* exactly one sync_job_step with the same step_id, task_id and parent_task_id
\* and countdown 5.
C6_TaskMirrorsStep ==
    \A v \in StepWorkers :
        (spc[v] = "exit" /\ "raised" \notin slog[v] /\ step.exists) =>
            /\ task = step.status
            /\ IF step.status = "finished"
               THEN sdelayed[v] = <<>>
               ELSE sdelayed[v] =
                      <<[name |-> "sync_job_step", id |-> <<"s1", "s1", "j1">>,
                         countdown |-> 5, signal |-> None, retry |-> FALSE]>>

\* an invocation took the JobStep from in_progress to finished
C6_Witness ==
    \E v \in StepWorkers :
        /\ spc[v] = "exit" /\ "update_step" \in slog[v]
        /\ step.status = "finished" /\ step.result = "passed"
        /\ step.date_started # NoDate
        /\ task = "finished"

\* C2: the Command is expanded at most once: at most one JobPhase is ever
\* created from it, whatever reports arrive and however they interleave.
C2_AtMostOneExpansion == Len(phases) <= 1

(***************************************************************************)
(* Properties of the green-build listener                                  *)
(***************************************************************************)
\* the VCS can only answer that child descends from parent, or that it does
\* not know parent
MustReplace(child, parent) ==
    IsChildParent(child, parent) \subseteq {"child", "UnknownParentRevision"}

\* the VCS can only answer that child does not descend from parent, or that
\* it does not know child
MustKeep(child, parent) ==
    IsChildParent(child, parent) \subseteq {"not_child", "UnknownChildRevision"}

\* C3: for a passing commit Build and a branch with a LatestGreenBuild, the
\* handler replaces the pointer when the Build's revision descends from the
\* recorded one or the recorded one is unknown to the VCS, and leaves it
\* when it does not descend or is itself unknown; it raises in no case.
\* Stated for a handler that runs alone: when its loop is over no branch of
\* the revision is left with a pointer that had to be replaced, and no
\* pointer that had to be kept was replaced.
C3_AncestryDecidesPointer ==
    /\ [](\A h \in Handlers :
            (signals = 1 /\ hpc[h] = "notify") =>
                \A i \in 1..Len(gbuild[harg[h]].branches) :
                    LET br == gbuild[harg[h]].branches[i]
                    IN  latest[br] \notin {None, harg[h]} =>
                            ~MustReplace(gbuild[harg[h]].rev, RevisionOf(latest[br])))
    /\ [][\A br \in Branches :
            (signals = 1 /\ latest'[br] # latest[br] /\ latest[br] # None) =>
                ~MustKeep(RevisionOf(latest'[br]), RevisionOf(latest[br]))]_vars

\* C4: with B1 a passing commit build of r1 and B2 one of its descendant r2
\* on the same branch, the pointer of the branch, once at B2, is never moved
\* back by the handler of B1.
C4_NewerGreenNeverClobbered ==
    [][(gbuild["B1"].rev = "r1" /\ latest["master"] = "B2") => latest'["master"] = "B2"]_vars

(***************************************************************************)
(* Properties of sync_job                                                  *)
(***************************************************************************)
\* the invocation of w has made all its calls and still holds the lock
AtExit(w) == pc[w] = "exit"

Raised(w) == "raised" \in log[w]

\* C1: sync_job changes the Build only when the Build's status at the moment
\* of the update is queued or unknown, and the Build's status never moves
\* backwards in the order of progress.
C1_BuildChangesOnlyWhileQueuedOrUnknown ==
    [][build' # build =>
          /\ build.status \in {"queued", "unknown"}
          /\ Rank(build'.status) >= Rank(build.status)]_vars

\* a Job finished while the Build was already in_progress: the update ran and
\* the filter left the Build alone
C1_Witness ==
    \E w \in Workers :
        /\ pc[w] = "publish"
        /\ mem[w].status = "finished"
        /\ build.status = "in_progress"

\* C5: an invocation that ran to completion on a non-finished Job either left
\* the Job not finished and enqueued exactly one sync_job (countdown 5) and
\* nothing else, or left it finished and enqueued no sync_job and exactly one
\* of each fan-out task, update_build_result only with a Build and
\* update_project_plan_stats only with a JobPlan.
C5_ContinuationOrFanOut ==
    \A w \in Workers :
        (AtExit(w) /\ ~Raised(w) /\ "noop" \notin log[w]) =>
            /\ job[arg[w]].status = mem[w].status
            /\ \/ /\ mem[w].status # "finished"
                  /\ delayed[w] = <<Task("sync_job", arg[w], 5)>>
               \/ /\ mem[w].status = "finished"
                  /\ CountTasks(delayed[w], "sync_job") = 0
                  /\ CountTasks(delayed[w], "update_build_result")
                        = (IF mem[w].build_id # None THEN 1 ELSE 0)
                  /\ CountTasks(delayed[w], "update_project_stats") = 1
                  /\ CountTasks(delayed[w], "notify_listeners") = 1
                  /\ \A i \in 1..Len(delayed[w]) :
                        delayed[w][i].name = "notify_listeners"
                            => delayed[w][i].signal = "job.finished"
                  /\ CountTasks(delayed[w], "update_project_plan_stats")
                        = (IF jobplan[arg[w]] # "absent" THEN 1 ELSE 0)
                  /\ Len(delayed[w]) = 2 + (IF mem[w].build_id # None THEN 1 ELSE 0)
                                         + (IF jobplan[arg[w]] # "absent" THEN 1 ELSE 0)

\* a Job without a JobPlan was finished (aborted) and fanned out
C5_Witness ==
    \E w \in Workers :
        /\ AtExit(w) /\ ~Raised(w) /\ "noop" \notin log[w]
        /\ mem[w].status = "finished"
        /\ jobplan[arg[w]] = "absent"
        /\ mem[w].build_id # None

\* the invocation of w went past the lookup of lines 15-20
Proceeded(w) ==
    \/ pc[w] \in {"exec", "commit", "build", "publish", "enqueue", "pubjob"}
    \/ log[w] \cap {"execute", "unrecoverable", "build_update", "publish_build", "publish_job"} # {}
    \/ \E i \in 1..Len(delayed[w]) : ~delayed[w][i].retry

\* C7: sync_job for a job id without a row or for a finished Job does nothing:
\* it never goes past the lookup, calls no Backend, enqueues and retries
\* nothing, publishes nothing.
C7_NoOpWhenAbsentOrFinished ==
    /\ \A w \in Workers : Proceeded(w) => (mem[w].exists /\ prev[w] \in Status \ {"finished"})
    /\ \A w \in Workers :
          (AtExit(w) /\ ~Raised(w)
             /\ (~job[arg[w]].exists \/ prev[w] = None)) =>
                /\ delayed[w] = <<>>
                /\ log[w] = {"locked", "noop"}

\* an invocation for a Job that an earlier invocation had finished
C7_Witness ==
    \E w \in Workers :
        /\ AtExit(w)
        /\ "noop" \in log[w]
        /\ job[arg[w]].exists
        /\ job[arg[w]].status = "finished"

\* C8: without a JobPlan, without steps, or when execute raises
\* UnrecoverableException, the invocation leaves the Job finished/aborted,
\* enqueues and retries no sync_job, and performs the fan-out.
C8_UnrecoverableAborts ==
    \A w \in Workers :
        (AtExit(w) /\ ~Raised(w)
           /\ (plan[w] \in {"absent", "nosteps"} \/ "unrecoverable" \in log[w])) =>
              /\ job[arg[w]].status = "finished"
              /\ job[arg[w]].result = "aborted"
              /\ CountTasks(delayed[w], "sync_job") = 0
              /\ CountRetries(delayed[w]) = 0
              /\ CountTasks(delayed[w], "update_project_stats") = 1
              /\ CountTasks(delayed[w], "notify_listeners") = 1
              /\ CountTasks(delayed[w], "update_build_result")
                    = (IF job[arg[w]].build_id # None THEN 1 ELSE 0)

\* execute raised UnrecoverableException for a Job with a Plan and a step
C8_Witness ==
    \E w \in Workers :
        /\ AtExit(w) /\ ~Raised(w)
        /\ plan[w] = "ok"
        /\ "unrecoverable" \in log[w]

\* C9: an exception other than UnrecoverableException gives exactly one retry
\* of sync_job for the same job id with countdown 60; a Job that is not
\* finished has a deliverable sync_job task or an invocation holding its lock.
C9_RetryKeepsJobScheduled ==
    /\ \A w \in Workers :
          (AtExit(w) /\ Raised(w)) =>
              /\ CountRetries(delayed[w]) = 1
              /\ delayed[w][Len(delayed[w])] = Retry("sync_job", arg[w], 60)
    /\ \A j \in Jobs :
          (job[j].exists /\ job[j].status # "finished") =>
              \/ pending[j] > 0
              \/ \E w \in Workers : pc[w] # "idle" /\ arg[w] = j

\* an invocation raised while its Job is not finished
C9_Witness ==
    \E w \in Workers :
        /\ AtExit(w) /\ Raised(w)
        /\ job[arg[w]].exists
        /\ job[arg[w]].status # "finished"
        /\ pending[arg[w]] = 0

\* a task was delivered to an invocation that did not get the lock
Abandons == \E j \in Jobs : pending'[j] < pending[j] /\ pc' = pc

Committed(w) == pc[w] \in {"enqueue", "pubjob", "exit"} /\ ~Raised(w) /\ "noop" \notin log[w]

\* C11: when the Job has a Build, its status changed in the invocation and
\* the Build is queued or unknown, the update leaves the Build with the
\* status, result and date_started of the Job and a build-update event is
\* published; when the status did not change, the invocation leaves the
\* Build alone and publishes no build-update event.
C11_BuildMirrorsJob ==
    /\ [][\A w \in Workers :
            (pc[w] = "build" /\ pc'[w] = "publish" /\ build.status \in {"queued", "unknown"}) =>
                /\ build'.status = mem[w].status
                /\ build'.result = mem[w].result
                /\ build'.date_started = mem[w].date_started]_vars
    /\ [](\A w \in Workers :
            Committed(w) =>
                IF mem[w].build_id # None /\ mem[w].status # prev[w]
                THEN {"build_update", "publish_build"} \subseteq log[w]
                ELSE {"build_update", "publish_build"} \cap log[w] = {})

(***************************************************************************)
(* Properties of the timeout and test-completeness policies                *)
(***************************************************************************)
\* the invocation of v is past the timeout check and the Backend call
PastSync(v) == spc[v] \in {"finish", "save", "exit"} /\ scalls[v] # <<>>

\* the invocation of v committed the JobStep
Saved(v) == spc[v] = "exit" /\ scalls[v] # <<>> /\ "raised" \notin slog[v]

\* the JobStep as the invocation of v loaded it: the row, which the lock
\* keeps from changing until the invocation commits
Loaded(v) == spc[v] \in {"finish", "save"} /\ scalls[v] # <<>>

\* C12: an invocation calls cancel_step, once, exactly when has_timed_out is
\* true and update_step, once, exactly when it is false, never both; on the
\* timed-out path the result of the JobStep is failed and a FailureReason
\* timeout is recorded.
C12_CancelIffTimedOut ==
    \A v \in StepWorkers :
        /\ Loaded(v) =>
              scalls[v] = IF HasTimedOut(step, snapshot, snow[v])
                          THEN <<"cancel_step">> ELSE <<"update_step">>
        /\ (Loaded(v) /\ HasTimedOut(step, snapshot, snow[v])) =>
              /\ smem[v].result = "failed"
              /\ "timeout" \in swrites[v].reasons
        /\ PastSync(v) => Len(scalls[v]) = 1
        /\ (Saved(v) /\ scalls[v] = <<"cancel_step">>) =>
              /\ step.result = "failed"
              /\ "timeout" \in reasons

\* a JobStep in progress was cancelled after its timeout and stays in progress
C12_Witness ==
    \E v \in StepWorkers :
        /\ Saved(v) /\ scalls[v] = <<"cancel_step">>
        /\ step.status = "in_progress" /\ step.result = "failed"
        /\ reasons = {"timeout"}

Finished(v) == spc[v] = "save" /\ smem[v].status = "finished"

\* the Job has a second JobPhase that started before the phase of the JobStep
LaterPhase ==
    \E q \in PhaseIds :
        /\ q # ThePhase
        /\ jobphases[q].exists
        /\ jobphases[q].date_started < jobphases[ThePhase].date_started

\* C14: is_missing_tests is true iff build.expect-tests is on, the JobStep is
\* not in the exempt setup phase (the phase with the earliest date_started
\* of a Job with more than one phase) and no TestCase has the id of this
\* JobStep; the TestCases of other JobSteps do not count.
C14_IsMissingTests ==
    \A v \in StepWorkers :
        Finished(v) =>
            (swrites[v].stats["tests_missing"] = 1
               <=> /\ snapshot.expect_tests
                   /\ (\A q \in PhaseIds \ {ThePhase} : ~jobphases[q].exists) \/ LaterPhase
                   /\ \A i \in 1..Len(testcases) : testcases[i].step # "s1")

\* missing tests although a sibling JobStep has a TestCase, in the later of
\* two phases, which was created first
C14_Witness ==
    \E v \in StepWorkers :
        /\ Finished(v)
        /\ swrites[v].stats["tests_missing"] = 1
        /\ testcases = <<TestCase("s2", FALSE)>>
        /\ LaterPhase
        /\ jobphases["test"].date_created < jobphases["setup"].date_created

\* C15: when a JobStep finishes with missing tests its result is failed
\* whatever the result before, tests_missing is 1 and a FailureReason
\* missing_tests is recorded; otherwise the result is kept and tests_missing
\* is 0; the commit writes these to the JobStep.
C15_MissingTestsFail ==
    [][\A v \in StepWorkers :
          /\ (spc[v] = "finish" /\ spc'[v] = "save") =>
                IF IsMissingTests(TheStep, ThePhase, snapshot, jobphases, testcases)
                THEN /\ smem'[v].result = "failed"
                     /\ swrites'[v].stats["tests_missing"] = 1
                     /\ "missing_tests" \in swrites'[v].reasons
                ELSE /\ smem'[v].result = smem[v].result
                     /\ swrites'[v].stats["tests_missing"] = 0
                     /\ "missing_tests" \notin swrites'[v].reasons
          /\ (Finished(v) /\ spc'[v] = "exit" /\ "raised" \notin slog'[v]) =>
                /\ step'.result = smem[v].result
                /\ stats'["tests_missing"] = swrites[v].stats["tests_missing"]
                /\ swrites[v].reasons \subseteq reasons']_vars

\* the Backend reported passed, the tests are missing, the JobStep failed
C15_Witness ==
    \E v \in StepWorkers :
        /\ Saved(v) /\ scalls[v] = <<"update_step">>
        /\ step.status = "finished" /\ step.result = "failed"
        /\ stats["tests_missing"] = 1
        /\ reasons = {"missing_tests"}

\* the sum of counter n over the FileCoverage rows of the JobStep
CoverageOf(n) ==
    LET rows == {i \in 1..Len(coverage) : coverage[i].step = "s1"}
        f[S \in SUBSET rows] ==
            IF S = {} THEN 0
            ELSE LET i == CHOOSE k \in S : TRUE IN coverage[i][n] + f[S \ {i}]
    IN  f[rows]

\* C16: the four coverage ItemStats of a finished JobStep are the sums of
\* the counters over the FileCoverage rows of this JobStep, and of no other;
\* one row (6, 5, 3, 2) gives 6, 5, 3, 2.
C16_CoverageSums ==
    step.status = "finished" =>
        /\ \A n \in StatNames \ {"tests_missing"} : stats[n] = CoverageOf(n)
        /\ coverage = <<FileCoverage("s1", 6, 5, 3, 2)>> =>
              /\ stats["lines_covered"] = 6
              /\ stats["lines_uncovered"] = 5
              /\ stats["diff_lines_covered"] = 3
              /\ stats["diff_lines_uncovered"] = 2

\* two rows of the JobStep and one of a sibling: the sums leave the sibling out
C16_Witness ==
    /\ step.status = "finished"
    /\ Len(coverage) = 3
    /\ stats["lines_covered"] = 7
    /\ stats["lines_uncovered"] = 5
    /\ stats["diff_lines_covered"] = 4
    /\ stats["diff_lines_uncovered"] = 2

(***************************************************************************)
(* Properties of the Command report endpoint                               *)
(***************************************************************************)
\* the step is request r handling its report: lines 60-112
Handles(r) == rpc[r] = "load" /\ rpc'[r] # "load"

\* the step is a step of request r
Acts(r) == rpc'[r] # rpc[r]

ErrorResponses == {"400", "404", "500"}

FailedResults == {"aborted", "failed", "infra_failed"}

\* Command, JobPhases and scheduled JobSteps are as they were
Untouched == command' = command /\ phases' = phases /\ scheduled' = scheduled

\* C17: a report is rejected with an error and changes nothing persisted
\* when the Command does not exist, when it is already finished, and when
\* the report carries output but the type of the Command has no expander.
C17_RejectedReports ==
    [][\A r \in Reqs :
          /\ (Handles(r)
                /\ \/ ~command.exists
                   \/ command.status = "finished"
                   \/ rargs[r].output.given /\ GetExpander(command.type) = None) =>
                /\ resp'[r] \in ErrorResponses
                /\ rpc'[r] = "exit"
          /\ (Acts(r) /\ resp[r] \in ErrorResponses) => Untouched]_vars

\* the report of r is one of the four that end in an error
ErrorCase(r) ==
    \/ command.status = "finished"
    \/ /\ NeedsLock(rargs[r])
       /\ command.step_result \notin FailedResults
       /\ GetExpander(command.type) # None
       /\ \/ ~rargs[r].output.given
          \/ rargs[r].output.valid \in {"assertion", "error"}

\* C18: a report on a finished Command, without the output an expandable
\* Command needs, or with output the expander rejects or fails on, ends in
\* an error response; no step of a request that ends in an error response
\* changes the Command, creates a JobPhase or schedules a JobStep.
C18_ErrorsChangeNothing ==
    [][\A r \in Reqs :
          /\ (Handles(r) /\ command.exists /\ ErrorCase(r)) =>
                /\ resp'[r] \in ErrorResponses
                /\ rpc'[r] = "exit"
          /\ (Acts(r) /\ (resp[r] \in ErrorResponses \/ resp'[r] \in ErrorResponses)) =>
                Untouched]_vars

\* a report with status finished and a return code, but without output, on
\* a collect_tests Command: updated in the session, then rolled back
C18_Witness ==
    \E r \in Reqs :
        /\ rpc[r] = "exit" /\ resp[r] = "400"
        /\ rargs[r].status = "finished" /\ rargs[r].return_code = 0
        /\ ~rargs[r].output.given
        /\ command.type = "collect_tests"
        /\ command.status = "queued" /\ command.return_code = NoCode

\* C19: a report with output or status finished on a Command whose JobStep
\* has result aborted, failed or infra_failed is answered without error,
\* counted, and creates and schedules nothing, however often it is repeated.
C19_FailedStepSkipsExpansion ==
    /\ [](command.step_result \in FailedResults => (phases = <<>> /\ scheduled = <<>>))
    /\ [][\A r \in Reqs :
            (Handles(r) /\ command.exists /\ command.status # "finished"
               /\ NeedsLock(rargs[r]) /\ command.step_result \in FailedResults) =>
                  /\ resp'[r] = "200"
                  /\ skipped' = skipped + 1
                  /\ rnew'[r] = NoPhase
                  /\ rpc'[r] = "exit"
                  /\ Untouched]_vars

\* the report was made twice and skipped twice
C19_Witness ==
    /\ command.step_result = "failed"
    /\ skipped = 2
    /\ phases = <<>>
    /\ \E r \in Reqs : rpc[r] = "exit" /\ resp[r] = "200" /\ rargs[r].output.given

\* the scheduled JobSteps of JobPhase id
ScheduledOf(id) == {i \in 1..Len(scheduled) : scheduled[i].step_id[1] = id}

\* C20: the commit of a successful expansion adds exactly one JobPhase; with
\* no step descriptors the phase is finished/passed and no JobStep is
\* scheduled; with n > 0 descriptors the phase is queued.
C20_OnePhasePerExpansion ==
    [][\A r \in Reqs :
          (rpc[r] = "commit" /\ rpc'[r] = "exit"
             /\ rargs[r].output.given /\ rargs[r].output.valid = "ok"
             /\ GetExpander(command.type) # None
             /\ command.step_result \notin FailedResults) =>
                /\ Len(phases') = Len(phases) + 1
                /\ SubSeq(phases', 1, Len(phases)) = phases
                /\ LET ph == phases'[Len(phases')]
                   IN  IF rargs[r].output.n = 0
                       THEN /\ ph.status = "finished" /\ ph.result = "passed"
                            /\ ph.steps = 0
                            /\ ScheduledOf(ph.id) = {}
                       ELSE /\ ph.status = "queued"
                            /\ ph.steps = rargs[r].output.n
                            /\ Cardinality(ScheduledOf(ph.id)) = rargs[r].output.n]_vars

\* an expansion to no JobSteps was committed
C20_Witness ==
    /\ Len(phases) = 1
    /\ phases[1].status = "finished" /\ phases[1].result = "passed"
    /\ scheduled = <<>>
    /\ \E r \in Reqs : rpc[r] = "exit" /\ resp[r] = "200" /\ rargs[r].output.n = 0
                         /\ rargs[r].output.given

(***************************************************************************)
(* Further properties of the green-build listener                          *)
(***************************************************************************)
\* C21: the handler treats the branches of the revision independently: a
\* branch without a LatestGreenBuild row beforehand has a row pointing at
\* this Build afterwards, whatever the ancestry answer for the other
\* branches.  Stated for a handler that runs alone: when its loop is over
\* no branch of the revision is without a row.
C21_BranchesIndependent ==
    \A h \in Handlers :
        (signals = 1 /\ hpc[h] = "notify") =>
            \A i \in 1..Len(gbuild[harg[h]].branches) :
                latest[gbuild[harg[h]].branches[i]] # None

\* the Build of the signal is absent, has not passed or is not a commit build
Ignored(b) == ~gbuild[b].exists \/ gbuild[b].result # "passed" \/ ~gbuild[b].commit

\* C22: for a Build that does not exist, has not passed or is not a commit
\* build the handler changes no LatestGreenBuild row, sends no notification
\* and records no Event; every row written points at a passing commit Build.
C22_NoOpUnlessPassedCommit ==
    /\ [](\A br \in Branches :
            latest[br] \in GBuilds =>
                (gbuild[latest[br]].result = "passed" /\ gbuild[latest[br]].commit))
    /\ [](\A h \in Handlers :
            (hpc[h] # "idle" /\ Ignored(harg[h])) => hlog[h] = <<>>)
    /\ [][\A h \in Handlers :
            (hpc[h] # "idle" /\ hpc'[h] # hpc[h] /\ Ignored(harg[h])) =>
                (latest' = latest /\ events' = events /\ hpc'[h] \in {"exit", "idle"})]_vars

\* the handler of a failed commit Build is done
C22_Witness ==
    \E h \in Handlers :
        /\ hpc[h] = "exit"
        /\ gbuild[harg[h]].exists
        /\ gbuild[harg[h]].result = "failed"
        /\ gbuild[harg[h]].commit
        /\ hlog[h] = <<>>

\* the Event rows of Build b
EventsOf(b) == {i \in 1..Len(events) : events[i].item_id = b}

\* the handler of h made a notification attempt with outcome o
Posted(h, o) ==
    /\ hpc[h] = "exit"
    /\ Len(hlog[h]) >= 2
    /\ hlog[h][Len(hlog[h]) - 1] = "post"
    /\ hlog[h][Len(hlog[h])] = o

\* C23: the Event records a 409 from the receiver as a conflict, apart from
\* the failure recorded for any other error and from success.
C23_ConflictRecordedApart ==
    \A h \in Handlers :
        \A i \in EventsOf(harg[h]) :
            /\ Posted(h, "ok") => events[i].status = "success"
            /\ (Posted(h, "http_error") \/ Posted(h, "exception")) => events[i].status = "fail"
            /\ Posted(h, "409") => events[i].status \notin {"success", "fail"}

\* C24: however many handlers of one Build reach the notification, the
\* Build has at most one green_build Event, and its status is that of the
\* latest attempt: success iff that POST succeeded.
C24_OneEventPerBuild ==
    /\ \A b \in GBuilds : Cardinality(EventsOf(b)) <= 1
    /\ \A h \in Handlers, o \in PostResults :
          Posted(h, o) =>
              /\ EventsOf(harg[h]) # {}
              /\ \A i \in EventsOf(harg[h]) : events[i].status = "success" <=> o = "ok"

\* after two signals the latest attempt for the Build failed, and its one
\* Event says so
C24_Witness ==
    \E h \in Handlers :
        /\ signals = 2
        /\ Posted(h, "exception")
        /\ events = <<Event(harg[h], "fail")>>

(***************************************************************************)
(* Verdicts and redelivery                                                 *)
(***************************************************************************)
\* C25: a Job or JobStep whose result is not unknown has status finished,
\* on the abort path of sync_job and the timeout path of sync_job_step too.
C25_VerdictOnlyWhenFinished ==
    /\ \A j \in Jobs : job[j].result # "unknown" => job[j].status = "finished"
    /\ step.result # "unknown" => step.status = "finished"

\* C26: sync_job_step delivered again for a JobStep already finished changes
\* nothing: the row, its ItemStats and its FailureReasons stay as they are,
\* no Backend operation is called and nothing is enqueued.
C26_RedeliveryChangesNothing ==
    /\ [](\A v \in StepWorkers :
            /\ spc[v] \in {"sync", "finish", "save"} => step.status # "finished"
            /\ "noop" \in slog[v] => (scalls[v] = <<>> /\ sdelayed[v] = <<>>))
    /\ [][step.status = "finished" =>
            (step' = step /\ stats' = stats /\ reasons' = reasons /\ task' = task)]_vars

\* a second delivery found the JobStep finished with its artifacts written
C26_Witness ==
    \E v \in StepWorkers :
        /\ spc[v] = "exit" /\ "noop" \in slog[v]
        /\ step.status = "finished"
        /\ task = "finished"
        /\ "tests_missing" \in DOMAIN stats

(***************************************************************************)
(* The Build derived from its Jobs                                         *)
(***************************************************************************)
\* the Jobs of the Build
JobsOfBuild == {j \in Jobs : job[j].exists /\ job[j].build_id = "b1"}

\* C27: a Build whose date_started is set started no later than the earliest
\* of its Jobs that have started, whatever the order of the invocations.
C27_BuildStartsWithFirstJob ==
    build.date_started # NoDate =>
        \A j \in JobsOfBuild :
            job[j].date_started # NoDate =>
                build.date_started <= job[j].date_started

\* C29: a Build whose status is finished has only finished Jobs.
C29_FinishedBuildHasFinishedJobs ==
    build.status = "finished" =>
        \A j \in JobsOfBuild : job[j].status = "finished"

(***************************************************************************)
(* Fan-out of a finished Job                                               *)
(***************************************************************************)
\* the invocation of w has just committed the finished state of its Job
JustFinished(w, j) ==
    /\ arg[w] = j
    /\ pc[w] = "build"
    /\ job[j].status = "finished"

\* the invocation of w has handed the fan-out of the Job to the queue
FannedOut(w, j) ==
    /\ arg[w] = j
    /\ \E i \in 1..Len(delayed[w]) :
          delayed[w][i] = Signal("notify_listeners", j, "job.finished")
    /\ job[j].build_id # None =>
          \E i \in 1..Len(delayed[w]) :
              delayed[w][i] = Task("update_build_result", j, 0)

\* C28: every Job whose status becomes finished eventually has its fan-out
\* enqueued, even when an exception interrupts the invocation after the
\* commit and the task is retried, the queue delivering every task.
C28_FinishedJobFansOut ==
    \A j \in Jobs :
        (\E w \in Workers : JustFinished(w, j)) ~> (\E w \in Workers : FannedOut(w, j))

(***************************************************************************)
(* Scheduling of the expanded JobSteps                                     *)
(***************************************************************************)
\* the JobPhases created so far, committed or still in a session
CreatedPhases ==
    {phases[i] : i \in 1..Len(phases)} \cup {rnew[r] : r \in Reqs}

CountOf(seq, x) == Cardinality({i \in 1..Len(seq) : seq[i] = x})

\* the step is a step of invocation h
HActs(h) == hpc'[h] # hpc[h]

\* C31: with the repository present locally update is called once, and once
\* more iff the first call raised ConcurrentUpdateError; an error of the
\* second call propagates, no LatestGreenBuild row is changed and no
\* notification is sent; with the repository absent clone is called and
\* update is not.
C31_UpdateRetriedOnce ==
    [][\A h \in Handlers :
          /\ (hpc[h] = "vcs" /\ HActs(h)) =>
                LET new == SubSeq(hlog'[h], Len(hlog[h]) + 1, Len(hlog'[h]))
                    conflict == Len(new) >= 2 /\ new[2] = "ConcurrentUpdateError"
                IN  /\ cloned =>
                          /\ CountOf(new, "clone") = 0
                          /\ new[1] = "update"
                          /\ CountOf(new, "update") = IF conflict THEN 2 ELSE 1
                    /\ ~cloned =>
                          /\ CountOf(new, "update") = 0
                          /\ CountOf(new, "clone") = 1
                    /\ new[Len(new)] = "raised" =>
                          /\ hpc'[h] = "exit"
                          /\ latest' = latest /\ events' = events
          /\ (HActs(h) /\ CountOf(hlog[h], "raised") > 0) =>
                /\ hpc'[h] = "idle"
                /\ latest' = latest /\ events' = events]_vars

\* the second update failed too and the handler is leaving
C31_Witness ==
    \E h \in Handlers :
        /\ hpc[h] = "exit"
        /\ hlog[h] = <<"update", "ConcurrentUpdateError", "update", "raised">>
        /\ cloned
        /\ events = <<>>

(***************************************************************************)
(* The vocabularies of a Step                                              *)
(***************************************************************************)
\* C33: a Step constructed without a status or a result has the unknown
\* member of the Status vocabulary as status and the unknown member of the
\* Result vocabulary as result; the status of every Step is a member of the
\* Status vocabulary and its result a member of the Result vocabulary.
C33_StepVocabularies ==
    \A i \in 1..Len(bsteps) :
        /\ bsteps[i].kwargs.status = NotGiven =>
              bsteps[i].obj.status = Member("Status", "unknown")
        /\ bsteps[i].kwargs.result = NotGiven =>
              bsteps[i].obj.result = Member("Result", "unknown")
        /\ bsteps[i].obj.status \in StatusVocabulary
        /\ bsteps[i].obj.result \in ResultVocabulary

(***************************************************************************)
(* The expansion lock of the Command                                       *)
(***************************************************************************)
ExpandLock == LockKey("expand", "c1")

\* request r is in flight and took the lock when it arrived
Acquired(r) ==
    /\ rpc[r] # "new"
    /\ NeedsLock(rargs[r])
    /\ resp[r] # "lock_unavailable"

\* C32: a report that acquired the expansion lock of the Command releases
\* it on every exit path, so the lock is only ever held on behalf of a
\* request in flight and is free once that request has completed; a report
\* with neither output nor status finished never acquires or releases it.
C32_LockReleasedOnEveryExit ==
    /\ [](ExpandLock \in locks => \E r \in Reqs : Acquired(r))
    /\ [][\A r \in Reqs :
            /\ (rpc[r] = "exit" /\ Acts(r) /\ Acquired(r)) => ExpandLock \notin locks'
            /\ (rpc[r] # "new" /\ Acts(r) /\ ~NeedsLock(rargs[r])) => locks' = locks
            /\ (rpc[r] = "new" /\ Acts(r) /\ ~NeedsLock(rargs'[r])) => locks' = locks]_vars

\* the request that met a failed JobStep has completed and the lock is free
C32_Witness ==
    /\ skipped = 1
    /\ reports = 1
    /\ \A r \in Reqs : rpc[r] = "new"
    /\ ExpandLock \notin locks

====
